---- MODULE Spec2Model ----
(***************************************************************************)
(* A model of sktime/container/array.py: the TimeArray container, its      *)
(* constructors (from_list, from_ts, _concat_same_type), its text codec    *)
(* (to_ts / from_ts) and its operations.                                    *)
(*                                                                         *)
(* A numpy array is a record [kind, ndim, w, rows]: rows is the sequence   *)
(* of its rows and w its column count (kept apart from rows so that a      *)
(* 0-row array still has a width).  A 1-dimensional array of length w is   *)
(* held as ndim = 1 with one row.  A float cell is an integer, and the     *)
(* not-a-number cell is NaN, compared and added as IEEE floats are.        *)
(***************************************************************************)
EXTENDS Integers, Sequences, FiniteSets, TLC

VARIABLES heap, objs, last, nops

vars == <<heap, objs, last, nops>>

----------------------------------------------------------------------------
(* Bounds of the model *)

MaxVal == 1
MaxW == 2
MaxRows == 2
MaxList == 3
MaxConcat == 2
MaxTake == 2
MaxUnique == 3
MaxOps == 2

----------------------------------------------------------------------------
(* Floats *)

NaN == -1

isnan(x) == x = NaN

\* x == y on floats: NaN equals nothing, itself included
FEq(x, y) == x # NaN /\ y # NaN /\ x = y

\* x != y on floats
FNe(x, y) == ~FEq(x, y)

\* x + y on floats
FAdd(x, y) == IF x = NaN \/ y = NaN THEN NaN ELSE x + y

----------------------------------------------------------------------------
(* numpy arrays *)

Arr2(w, rows) == [kind |-> "ndarray", ndim |-> 2, w |-> w, rows |-> rows]

Arr1(row) == [kind |-> "ndarray", ndim |-> 1, w |-> Len(row), rows |-> <<row>>]

NoneObj == [kind |-> "None"]

nrows(a) == Len(a.rows)

\* a.shape == b.shape
SameShape(a, b) ==
    /\ a.ndim = b.ndim
    /\ a.w = b.w
    /\ (a.ndim = 2 => nrows(a) = nrows(b))

np_full(n, w, v) == Arr2(w, [i \in 1..n |-> [j \in 1..w |-> v]])

\* an array of zeros in place of sentinels
empty_zeros(n, w) == np_full(n, w, 0)

empty(n, w) == np_full(n, w, NaN)

\* np.vstack([np.arange(w) for _ in range(n)]), np.arange(w)[np.newaxis, :]
arange_rows(n, w) == Arr2(w, [i \in 1..n |-> [j \in 1..w |-> j - 1]])

RECURSIVE ConcatRows(_)
ConcatRows(arrs) ==
    IF arrs = <<>> THEN <<>>
    ELSE Head(arrs).rows \o ConcatRows(Tail(arrs))

\* np.vstack: every array at least 2-d, all of one width, at least one array
vstack(arrs) ==
    IF arrs = <<>> \/ \E i \in 1..Len(arrs) : arrs[i].w # arrs[1].w
    THEN [err |-> "ValueError", arr |-> Arr2(0, <<>>)]
    ELSE [err |-> "ok", arr |-> Arr2(arrs[1].w, ConcatRows(arrs))]

\* np.all(np.isnan(row))
AllNaN(row) == \A j \in 1..Len(row) : isnan(row[j])

----------------------------------------------------------------------------
(* sktime.container.base and sktime.container.TimeBase *)

ensure_2d(a) == Arr2(a.w, a.rows)

check_data_index(data, index) ==
    data.ndim = 2 /\ index.ndim = 2 /\ SameShape(data, index)

TimeBase(data, time_index) ==
    [kind |-> "TimeBase", data |-> ensure_2d(data), time_index |-> ensure_2d(time_index)]

----------------------------------------------------------------------------
(* Results of an operation: a container, or the error raised *)

TA(data, time_index) == [kind |-> "TimeArray", data |-> data, time_index |-> time_index]

Ok(data, time_index) == [err |-> "ok", data |-> data, time_index |-> time_index]

Fail(e) == [err |-> e, data |-> Arr2(0, <<>>), time_index |-> Arr2(0, <<>>)]

----------------------------------------------------------------------------
(* TimeArray: construction, indexing, missingness *)

\* TimeArray.__init__ without its checks of the arrays' shapes
TimeArray_init_unchecked(data, time_index) ==
    IF data.kind \notin {"None", "TimeArray", "ndarray"} THEN Fail("TypeError")
    ELSE IF time_index.kind \notin {"None", "ndarray"} THEN Fail("TypeError")
    ELSE
      LET d == CASE data.kind = "None" -> np_full(1, 0, NaN)
                 [] data.kind = "TimeArray" -> data.data
                 [] OTHER -> data
          t == IF time_index.kind # "None" THEN time_index
               ELSE IF data.kind = "TimeArray" THEN data.time_index
               ELSE arange_rows(nrows(d), d.w)
      IN Ok(d, t)

\* TimeArray.__init__(data, time_index=None, copy=False); copy changes only the
\* storage of the result, which the heap actions below account for
TimeArray_init(data, time_index) ==
    IF data.kind \notin {"None", "TimeArray", "ndarray"} THEN Fail("TypeError")
    ELSE IF data.kind = "ndarray" /\ data.ndim # 2 THEN Fail("InvalidShape")
    ELSE IF time_index.kind \notin {"None", "ndarray"} THEN Fail("TypeError")
    ELSE
      LET d == CASE data.kind = "None" -> np_full(1, 0, NaN)
                 [] data.kind = "TimeArray" -> data.data
                 [] OTHER -> data
          t == IF time_index.kind # "None" THEN time_index
               ELSE IF data.kind = "TimeArray" THEN data.time_index
               ELSE arange_rows(nrows(d), d.w)
      IN IF check_data_index(d, t) THEN Ok(d, t) ELSE Fail("ShapeMismatch")

\* A selector: an integer, a slice start:stop, or a sequence of integers
IntKey(i) == [kind |-> "int", i |-> i]

SliceKey(start, stop) == [kind |-> "slice", start |-> start, stop |-> stop]

SeqKey(idx) == [kind |-> "seq", idx |-> idx]

Min(a, b) == IF a < b THEN a ELSE b

\* whether every integer of the selector addresses a row of an n-row array
KeyInRange(n, key) ==
    CASE key.kind = "int" -> -n <= key.i /\ key.i < n
      [] key.kind = "seq" -> \A k \in 1..Len(key.idx) : -n <= key.idx[k] /\ key.idx[k] < n
      [] OTHER -> TRUE

\* the (1-based) rows of an n-row array the selector addresses, in order
KeyRows(n, key) ==
    CASE key.kind = "int" -> <<((key.i + n) % n) + 1>>
      [] key.kind = "seq" -> [k \in 1..Len(key.idx) |-> ((key.idx[k] + n) % n) + 1]
      [] OTHER -> LET lo == Min(key.start, n)
                      hi == Min(key.stop, n)
                  IN [k \in 1..(IF hi > lo THEN hi - lo ELSE 0) |-> lo + k]

\* arr[idx] for a slice or an index sequence
RowsOf(a, sel) == Arr2(a.w, [k \in 1..Len(sel) |-> a.rows[sel[k]]])

\* TimeArray.__getitem__: an integer gives a TimeBase (None for a missing row),
\* a slice or sequence gives a TimeArray of the selected rows
getitem(self, idx) ==
    IF idx.kind \notin {"int", "slice", "seq"} THEN [err |-> "TypeError", val |-> NoneObj]
    ELSE IF ~KeyInRange(nrows(self.data), idx) THEN [err |-> "IndexOutOfRange", val |-> NoneObj]
    ELSE LET sel == KeyRows(nrows(self.data), idx) IN
      IF idx.kind = "int"
      THEN IF AllNaN(self.data.rows[sel[1]]) /\ AllNaN(self.time_index.rows[sel[1]])
           THEN [err |-> "ok", val |-> NoneObj]
           ELSE [err |-> "ok", val |-> TimeBase(Arr1(self.data.rows[sel[1]]),
                                               Arr1(self.time_index.rows[sel[1]]))]
      ELSE LET r == TimeArray_init(RowsOf(self.data, sel), RowsOf(self.time_index, sel))
           IN [err |-> r.err, val |-> TA(r.data, r.time_index)]

isna_grid(arr) == [i \in 1..nrows(arr) |-> [j \in 1..arr.w |-> isnan(arr.rows[i][j])]]

\* np.apply_over_axes(np.all, grid, 1).flatten()
isna_row(arr) == [i \in 1..nrows(arr) |-> \A j \in 1..arr.w : isna_grid(arr)[i][j]]

isna(self) == [i \in 1..nrows(self.data) |->
                  isna_row(self.data)[i] /\ isna_row(self.time_index)[i]]

----------------------------------------------------------------------------
(* from_list *)

\* The loop body of from_list for one item: its data, its index and its width
\* (NaN for None), or the error it raises
RowCodec(ts) ==
    CASE ts.kind \in {"TimeBase", "TimeArray"} ->
           IF check_data_index(ts.data, ts.time_index)
           THEN [err |-> "ok", d |-> ts.data, i |-> ts.time_index, width |-> ts.data.w]
           ELSE [err |-> "ShapeMismatch", d |-> NoneObj, i |-> NoneObj, width |-> NaN]
      [] ts.kind = "tuple" ->
           [err |-> "ok", d |-> ensure_2d(ts.data), i |-> ensure_2d(ts.time_index),
            width |-> ts.data.w]
      [] ts.kind = "Series" ->
           [err |-> "ok", d |-> ts.data, i |-> ts.time_index, width |-> ts.data.w]
      [] ts.kind = "None" ->
           [err |-> "ok", d |-> NoneObj, i |-> NoneObj, width |-> NaN]
      [] OTHER ->
           [err |-> "UnsupportedInputType", d |-> NoneObj, i |-> NoneObj, width |-> NaN]

\* the least index satisfying P, where one exists
First(S) == CHOOSE k \in S : \A m \in S : k <= m

from_list(data) ==
    LET n == Len(data)
        dec == [idx \in 1..n |-> RowCodec(data[idx])]
        bad == {idx \in 1..n : dec[idx].err # "ok"}
        widths == [idx \in 1..n |-> dec[idx].width]
        mask == [idx \in 1..n |-> isnan(widths[idx])]
        present == {idx \in 1..n : ~mask[idx]}
    IN
    IF bad # {} THEN Fail(dec[First(bad)].err)
    ELSE IF present = {} THEN
      LET a == TimeArray_init(np_full(n, 0, NaN), NoneObj)
          r == getitem(TA(a.data, a.time_index), SliceKey(0, n))
      IN Ok(r.val.data, r.val.time_index)
    ELSE IF present # 1..n /\ dec[First(present)].d.ndim # 2 THEN Fail("IndexError")
    ELSE
      LET w == dec[First(present)].d.w
          out_d == [idx \in 1..n |-> IF mask[idx] THEN np_full(1, w, NaN) ELSE dec[idx].d]
          out_i == [idx \in 1..n |-> IF mask[idx] THEN np_full(1, w, NaN) ELSE dec[idx].i]
          vd == vstack(out_d)
          vi == vstack(out_i)
      IN
      IF \E idx \in present : widths[idx] # widths[First(present)] THEN Fail("WidthMismatch")
      ELSE IF vd.err # "ok" THEN Fail(vd.err)
      ELSE IF vi.err # "ok" THEN Fail(vi.err)
      ELSE TimeArray_init(vd.arr, vi.arr)

----------------------------------------------------------------------------
(* Concatenation, comparison, addition *)

\* np.unique(widths[widths > 0])
PositiveWidths(to_concat) ==
    {to_concat[k].data.w : k \in {m \in 1..Len(to_concat) : to_concat[m].data.w > 0}}

concat_same_type(to_concat) ==
    IF \E k \in 1..Len(to_concat) : to_concat[k].kind # "TimeArray"
    THEN Fail("UnsupportedType")
    ELSE IF Cardinality(PositiveWidths(to_concat)) > 1 THEN Fail("WidthMismatch")
    ELSE
      LET ref_width == IF PositiveWidths(to_concat) = {} THEN 0
                       ELSE CHOOSE w \in PositiveWidths(to_concat) : TRUE
          data == [k \in 1..Len(to_concat) |->
                     IF to_concat[k].data.w = 0
                     THEN empty(nrows(to_concat[k].data), ref_width)
                     ELSE to_concat[k].data]
          tidx == [k \in 1..Len(to_concat) |->
                     IF to_concat[k].data.w = 0
                     THEN empty(nrows(to_concat[k].data), ref_width)
                     ELSE to_concat[k].time_index]
          vd == vstack(data)
          vi == vstack(tidx)
      IN IF vd.err # "ok" THEN Fail(vd.err)
         ELSE IF vi.err # "ok" THEN Fail(vi.err)
         ELSE TimeArray_init(vd.arr, vi.arr)

\* numpy broadcasting of two 2-d arrays
Broadcastable(a, b) ==
    /\ (nrows(a) = nrows(b) \/ nrows(a) = 1 \/ nrows(b) = 1)
    /\ (a.w = b.w \/ a.w = 1 \/ b.w = 1)

BRows(a, b) == IF nrows(a) = 1 THEN nrows(b) ELSE nrows(a)

BCols(a, b) == IF a.w = 1 THEN b.w ELSE a.w

BCell(a, r, c) == a.rows[IF nrows(a) = 1 THEN 1 ELSE r][IF a.w = 1 THEN 1 ELSE c]

\* np.all(a == b); arrays that do not broadcast compare as the scalar False
AllEqual(a, b) ==
    /\ Broadcastable(a, b)
    /\ \A r \in 1..BRows(a, b) : \A c \in 1..BCols(a, b) : FEq(BCell(a, r, c), BCell(b, r, c))

\* np.all(a != b); arrays that do not broadcast compare as the scalar True
AllDiffer(a, b) ==
    Broadcastable(a, b) =>
      \A r \in 1..BRows(a, b) : \A c \in 1..BCols(a, b) : FNe(BCell(a, r, c), BCell(b, r, c))

\* TimeArray.__eq__ against another container
eq(self, other) ==
    AllEqual(self.data, other.data) /\ AllEqual(self.time_index, other.time_index)

\* a + b
np_add(a, b) ==
    Arr2(BCols(a, b), [r \in 1..BRows(a, b) |->
                          [c \in 1..BCols(a, b) |-> FAdd(BCell(a, r, c), BCell(b, r, c))]])

\* TimeArray.__add__
add(self, o) ==
    IF AllDiffer(self.time_index, o.time_index) THEN Fail("IncompatibleIndex")
    ELSE IF ~Broadcastable(self.data, o.data) THEN Fail("ValueError")
    ELSE TimeArray_init(np_add(self.data, o.data), self.time_index)

\* TimeArray.copy
copy(self) == TimeArray_init(self.data, self.time_index)

\* TimeArray.slice_time: the columns whose time in row 0 is one of the targets
slice_time(self, time_index) ==
    IF nrows(self.time_index) = 0 THEN Fail("IndexOutOfRange")
    ELSE
      LET sel == {c \in 1..self.time_index.w :
                     \E t \in time_index : FEq(self.time_index.rows[1][c], t)}
          cols == CHOOSE q \in [1..Cardinality(sel) -> sel] :
                     \A x, y \in 1..Cardinality(sel) : x < y => q[x] < q[y]
          pick(a) == Arr2(Cardinality(sel),
                          [r \in 1..nrows(a) |-> [k \in 1..Cardinality(sel) |-> a.rows[r][cols[k]]]])
      IN TimeArray_init(pick(self.data), pick(self.time_index))

----------------------------------------------------------------------------
(* Text: a string is a sequence of one-character strings *)

DigitChars == <<"0", "1", "2", "3", "4", "5", "6", "7", "8", "9">>

RECURSIVE Digits(_)
Digits(n) == IF n < 10 THEN <<DigitChars[n + 1]>>
             ELSE Digits(n \div 10) \o <<DigitChars[(n % 10) + 1]>>

\* str(x) of a float cell
StrFloat(x) == IF isnan(x) THEN <<"n", "a", "n">> ELSE Digits(x) \o <<".", "0">>

IsDigit(c) == \E d \in 1..10 : DigitChars[d] = c

DigitVal(c) == (CHOOSE d \in 1..10 : DigitChars[d] = c) - 1

RECURSIVE DigitsVal(_)
DigitsVal(s) == IF s = <<>> THEN 0
                ELSE 10 * DigitsVal(SubSeq(s, 1, Len(s) - 1)) + DigitVal(s[Len(s)])

\* the position of the first "." of s, or 0
DotAt(s) == IF \E k \in 1..Len(s) : s[k] = "." 
            THEN First({k \in 1..Len(s) : s[k] = "."}) ELSE 0

\* float(s): "nan", or digits with an optional all-zero fraction (the only
\* fractions str() gives the cells of this model)
ParseFloat(s) ==
    IF s = <<"n", "a", "n">> THEN [ok |-> TRUE, val |-> NaN]
    ELSE LET dot == DotAt(s)
             int == IF dot = 0 THEN s ELSE SubSeq(s, 1, dot - 1)
             frac == IF dot = 0 THEN <<>> ELSE SubSeq(s, dot + 1, Len(s))
         IN IF /\ int # <<>>
               /\ \A k \in 1..Len(int) : IsDigit(int[k])
               /\ \A k \in 1..Len(frac) : frac[k] = "0"
            THEN [ok |-> TRUE, val |-> DigitsVal(int)]
            ELSE [ok |-> FALSE, val |-> NaN]

RECURSIVE Join(_, _)
Join(parts, sep) ==
    IF parts = <<>> THEN <<>>
    ELSE IF Len(parts) = 1 THEN parts[1]
    ELSE parts[1] \o sep \o Join(Tail(parts), sep)

\* whether sep occurs in s at position k
MatchAt(s, sep, k) ==
    k + Len(sep) - 1 <= Len(s) /\ \A m \in 1..Len(sep) : s[k + m - 1] = sep[m]

\* s.split(sep)
RECURSIVE Split(_, _)
Split(s, sep) ==
    IF \E m \in 1..Len(s) : MatchAt(s, sep, m)
    THEN LET k == First({m \in 1..Len(s) : MatchAt(s, sep, m)})
         IN <<SubSeq(s, 1, k - 1)>> \o Split(SubSeq(s, k + Len(sep), Len(s)), sep)
    ELSE <<s>>

\* s.strip("()")
RECURSIVE Strip(_)
Strip(s) ==
    IF s # <<>> /\ s[1] \in {"(", ")"} THEN Strip(Tail(s))
    ELSE IF s # <<>> /\ s[Len(s)] \in {"(", ")"} THEN Strip(SubSeq(s, 1, Len(s) - 1))
    ELSE s

----------------------------------------------------------------------------
(* to_ts and from_ts *)

\* TimeArray.__array__: one TimeBase per row
array(self) == [i \in 1..nrows(self.data) |->
                   TimeBase(Arr1(self.data.rows[i]), Arr1(self.time_index.rows[i]))]

\* one line of to_ts: the pairs str(i) + "," + str(d) of zip(x.data[0], x.time_index[0])
ts_line(x) ==
    <<"(">> \o Join([c \in 1..x.data.w |->
                       StrFloat(x.data.rows[1][c]) \o <<",">> \o StrFloat(x.time_index.rows[1][c])],
                    <<")", ",", "(">>)
            \o <<")">>

\* to_ts(obj, include_header)
to_ts(obj, include_header) ==
    IF include_header THEN [err |-> "NotImplemented", lines |-> <<>>]
    ELSE IF obj.kind \notin {"TimeBase", "TimeArray"} THEN [err |-> "TypeError", lines |-> <<>>]
    ELSE LET xs == IF obj.kind = "TimeArray" THEN array(obj) ELSE <<obj>>
         IN [err |-> "ok", lines |-> [k \in 1..Len(xs) |-> ts_line(xs[k])]]

\* parse_line of from_ts: index, data = zip(*points); returns (data, index)
parse_line(line) ==
    LET points == Split(Strip(line), <<")", ",", "(">>)
        fields == [k \in 1..Len(points) |-> Split(points[k], <<",">>)]
        index == [k \in 1..Len(points) |-> ParseFloat(fields[k][1])]
        data == [k \in 1..Len(points) |-> ParseFloat(fields[k][2])]
    IN IF \/ \E k \in 1..Len(points) : Len(fields[k]) < 2
          \/ \A m \in 1..Len(points) : Len(fields[m]) > 2
       THEN [err |-> "MalformedSeriesText", first |-> <<>>, second |-> <<>>]
       ELSE IF \E k \in 1..Len(points) : ~index[k].ok \/ ~data[k].ok
       THEN [err |-> "MalformedSeriesText", first |-> <<>>, second |-> <<>>]
       ELSE [err |-> "ok", first |-> [k \in 1..Len(points) |-> data[k].val],
                           second |-> [k \in 1..Len(points) |-> index[k].val]]

from_ts(ts) ==
    LET parsed == [k \in 1..Len(ts) |-> parse_line(ts[k])]
        bad == {k \in 1..Len(ts) : parsed[k].err # "ok"}
    IN IF bad # {} THEN Fail(parsed[First(bad)].err)
       ELSE from_list([k \in 1..Len(ts) |->
                          TimeBase(Arr1(parsed[k].first), Arr1(parsed[k].second))])

\* _from_factorized(_values_for_factorize(c)): a container through its text
round_trip(self) ==
    LET vals == to_ts(self, FALSE)
    IN IF vals.err # "ok" THEN Fail(vals.err) ELSE from_ts(vals.lines)

----------------------------------------------------------------------------
(* astype and unique *)

\* str(x) of a TimeBase: its line of the ts format
TimeBase_str(x) == ts_line(x)

\* TimeArray.astype(dtype, copy): dtype is "timeseries", "str", "object" or other
astype(self, dtype) ==
    CASE dtype = "timeseries" -> [err |-> "ok", val |-> self]
      [] dtype = "str" -> [err |-> "ok", val |-> [i \in 1..Len(array(self)) |->
                                                     TimeBase_str(array(self)[i])]]
      [] dtype = "object" -> [err |-> "ok", val |-> array(self)]
      [] OTHER -> [err |-> "UnsupportedCast", val |-> NoneObj]

\* pandas.factorize(keys)[0]: each key's rank (from 0) among the distinct keys in
\* order of first occurrence
factorize(keys) ==
    LET firsts == {i \in 1..Len(keys) : \A m \in 1..(i - 1) : keys[m] # keys[i]}
    IN [i \in 1..Len(keys) |->
          Cardinality({f \in firsts : f < First({m \in 1..Len(keys) : keys[m] = keys[i]})})]

\* np.unique(codes): the distinct codes, ascending
np_unique(codes) ==
    LET S == {codes[i] : i \in 1..Len(codes)}
    IN CHOOSE q \in [1..Cardinality(S) -> S] :
          \A x, y \in 1..Cardinality(S) : x < y => q[x] < q[y]

\* TimeArray.unique
unique(self) ==
    LET rows == factorize(astype(self, "str").val)
        r == getitem(self, SeqKey(np_unique(rows)))
    IN IF r.err # "ok" THEN Fail(r.err) ELSE Ok(r.val.data, r.val.time_index)

----------------------------------------------------------------------------
(* Assignment into rows, take, __setitem__ *)

\* whether numpy broadcasts val into the rows sel of arr
CanAssign(arr, sel, val) ==
    /\ (nrows(val) = Len(sel) \/ nrows(val) = 1)
    /\ (val.w = arr.w \/ val.w = 1)

\* arr[sel] = val: arr with val broadcast into the rows sel (a row addressed
\* twice keeps the last write)
Assign(arr, sel, val) ==
    Arr2(arr.w, [r \in 1..nrows(arr) |->
        IF \E k \in 1..Len(sel) : sel[k] = r
        THEN LET k == CHOOSE m \in 1..Len(sel) :
                        sel[m] = r /\ \A m2 \in 1..Len(sel) : sel[m2] = r => m2 <= m
             IN [c \in 1..arr.w |-> BCell(val, k, c)]
        ELSE arr.rows[r]])

\* np.full((1, ), np.nan)
NaNScalar == np_full(1, 1, NaN)

\* the ascending sequence of the positions k of 1..n with P[k]
Where(n, P) ==
    LET S == {k \in 1..n : P[k]}
    IN CHOOSE q \in [1..Cardinality(S) -> S] :
          \A x, y \in 1..Cardinality(S) : x < y => q[x] < q[y]

\* pandas.api.extensions.take(arr, indices, allow_fill=allow_fill)
pd_take(arr, indices, allow_fill) ==
    LET n == nrows(arr) IN
    IF allow_fill THEN
      IF \E k \in 1..Len(indices) : indices[k] < -1 THEN [err |-> "ValueError", arr |-> arr]
      ELSE IF \E k \in 1..Len(indices) : indices[k] >= n
      THEN [err |-> "IndexOutOfRange", arr |-> arr]
      ELSE [err |-> "ok",
            arr |-> Arr2(arr.w, [k \in 1..Len(indices) |->
                       IF indices[k] = -1 THEN [c \in 1..arr.w |-> NaN]
                       ELSE arr.rows[indices[k] + 1]])]
    ELSE
      IF \E k \in 1..Len(indices) : indices[k] < -n \/ indices[k] >= n
      THEN [err |-> "IndexOutOfRange", arr |-> arr]
      ELSE [err |-> "ok",
            arr |-> Arr2(arr.w, [k \in 1..Len(indices) |-> arr.rows[((indices[k] + n) % n) + 1]])]

\* TimeArray.take(indices, allow_fill, fill_value)
take(self, indices, allow_fill, fill_value) ==
    LET d0 == pd_take(self.data, indices, allow_fill)
        t0 == pd_take(self.time_index, indices, allow_fill)
        m == Len(indices)
        out_of_range == [k \in 1..m |-> indices[k] < 0 \/ indices[k] >= nrows(d0.arr)]
        fill == allow_fill /\ fill_value.kind = "TimeBase"
        seld == Where(m, [k \in 1..m |-> isna_row(d0.arr)[k] /\ out_of_range[k]])
        selt == Where(m, [k \in 1..m |-> isna_row(t0.arr)[k] /\ out_of_range[k]])
        d == IF fill THEN Assign(d0.arr, seld, fill_value.data) ELSE d0.arr
        t == IF fill THEN Assign(t0.arr, selt, fill_value.time_index) ELSE t0.arr
    IN
    IF d0.err # "ok" THEN Fail(d0.err)
    ELSE IF t0.err # "ok" THEN Fail(t0.err)
    ELSE IF fill /\ ~CanAssign(d0.arr, seld, fill_value.data) THEN Fail("ValueError")
    ELSE IF fill /\ ~CanAssign(t0.arr, selt, fill_value.time_index) THEN Fail("ValueError")
    ELSE IF nrows(d) # 0 /\ \A r \in 1..nrows(d) : AllNaN(d.rows[r])
    THEN TimeArray_init(np_full(nrows(d), 0, NaN), NoneObj)
    ELSE TimeArray_init(d, t)

\* TimeArray.__setitem__(key, value): the rows it writes and what it writes to
\* them, or the error raised before anything is written
setitem(self, key, value) ==
    LET conv == IF value.kind \in {"None", "TimeBase", "TimeArray"}
                THEN [err |-> "ok", data |-> Arr2(0, <<>>), time_index |-> Arr2(0, <<>>)]
                ELSE from_list(value.items)
        v == IF value.kind \in {"None", "TimeBase", "TimeArray"} THEN value
             ELSE TA(conv.data, conv.time_index)
        n == nrows(self.data)
        sel == KeyRows(n, key)
        missing == v.kind = "None" \/ \A i \in 1..nrows(v.data) : isna(v)[i]
        none == [err |-> "ok", sel |-> <<>>, data |-> NaNScalar, time_index |-> NaNScalar]
    IN
    IF key.kind \notin {"int", "slice", "seq"} THEN [none EXCEPT !.err = "TypeError"]
    ELSE IF conv.err # "ok" THEN [none EXCEPT !.err = conv.err]
    ELSE IF ~KeyInRange(n, key) THEN [none EXCEPT !.err = "IndexOutOfRange"]
    ELSE IF missing THEN [none EXCEPT !.sel = sel]
    ELSE IF ~CanAssign(self.data, sel, v.data) THEN [none EXCEPT !.err = "ValueError"]
    ELSE [err |-> "ok", sel |-> sel, data |-> v.data, time_index |-> v.time_index]

----------------------------------------------------------------------------
(* The inputs the operations are applied to *)

\* a row of values: all present, or all missing
DataRows(w) == [1..w -> 0..MaxVal] \cup {[j \in 1..w |-> NaN]}

\* a row of times: k, k+1, ... from an offset k, or all missing
TimeRows(w) == {[j \in 1..w |-> k + j - 1] : k \in 0..MaxVal} \cup {[j \in 1..w |-> NaN]}

\* a TimeBase as indexing gives it: some width from 1, not missing altogether
SeriesSet ==
    LET all == UNION {{TimeBase(Arr1(d), Arr1(t)) : d \in DataRows(w), t \in TimeRows(w)} :
                         w \in 1..MaxW}
    IN {x \in all : ~(AllNaN(x.data.rows[1]) /\ AllNaN(x.time_index.rows[1]))}

\* a (values, times) pair of sequences, the times 0, 1, ...
TupleSet ==
    UNION {{[kind |-> "tuple", data |-> Arr1(d), time_index |-> Arr1([j \in 1..w |-> j - 1])] :
               d \in [1..w -> 0..MaxVal]} : w \in 1..MaxW}

\* a labeled sequence (values with an index), the labels 0, 1, ...
LabeledSet ==
    UNION {{[kind |-> "Series", data |-> Arr1(d), time_index |-> Arr1([j \in 1..w |-> j - 1])] :
               d \in [1..w -> 0..MaxVal]} : w \in 1..MaxW}

OtherObj == [kind |-> "other"]

\* what from_list is handed, item by item
ItemSet == SeriesSet \cup TupleSet \cup LabeledSet \cup {NoneObj, OtherObj}

SeqsUpTo(S, n) == UNION {[1..m -> S] : m \in 0..n}

\* the containers of n rows and w columns
ContsOf(n, w) ==
    {TA(Arr2(w, [i \in 1..n |-> q[i][1]]), Arr2(w, [i \in 1..n |-> q[i][2]])) :
        q \in [1..n -> DataRows(w) \X TimeRows(w)]}

\* the containers of at most n rows
ContSet(n) == UNION {ContsOf(m, w) : m \in 0..n, w \in 0..MaxW}

----------------------------------------------------------------------------
(* The operations applied to inputs: last records the call and what it gave *)

Init ==
    /\ heap = <<>>
    /\ objs = <<>>
    /\ last = [op |-> "init"]
    /\ nops = 0

Call(rec) ==
    /\ last' = rec
    /\ nops' = 1
    /\ UNCHANGED <<heap, objs>>

FromListFn ==
    /\ nops = 0
    /\ \E data \in SeqsUpTo(ItemSet, MaxList) :
        Call([op |-> "from_list", data |-> data, res |-> from_list(data)])

ConcatFn ==
    /\ nops = 0
    /\ \E to_concat \in SeqsUpTo(ContSet(MaxRows), MaxConcat) :
        Call([op |-> "concat", to_concat |-> to_concat, res |-> concat_same_type(to_concat)])

\* two containers built from the same list, compared with themselves and each other
EqualsFn ==
    /\ nops = 0
    /\ \E data \in SeqsUpTo(ItemSet, MaxList) :
        LET a == from_list(data)
            b == from_list(data)
        IN /\ a.err = "ok"
           /\ Call([op |-> "equals", data |-> data,
                    a |-> TA(a.data, a.time_index), b |-> TA(b.data, b.time_index),
                    aa |-> eq(TA(a.data, a.time_index), TA(a.data, a.time_index)),
                    ab |-> eq(TA(a.data, a.time_index), TA(b.data, b.time_index)),
                    ba |-> eq(TA(b.data, b.time_index), TA(a.data, a.time_index))])

NextNormalizer == FromListFn \/ ConcatFn \/ EqualsFn

SpecNormalizer == Init /\ [][NextNormalizer]_vars

\* a container through its text and back
RoundTripFn ==
    /\ nops = 0
    /\ \E c \in ContSet(MaxUnique) :
        Call([op |-> "round_trip", c |-> c, res |-> round_trip(c)])

UniqueFn ==
    /\ nops = 0
    /\ \E c \in ContSet(MaxUnique) :
        Call([op |-> "unique", c |-> c, res |-> unique(c)])

NextCodec == RoundTripFn \/ UniqueFn

SpecCodec == Init /\ [][NextCodec]_vars

AddFn ==
    /\ nops = 0
    /\ \E a \in ContSet(MaxRows), b \in ContSet(MaxRows) :
        Call([op |-> "add", a |-> a, b |-> b, res |-> add(a, b)])

\* a fill value: None, a TimeBase without missing cells, or something else
FillSet == {NoneObj, OtherObj} \cup {x \in SeriesSet :
                \A c \in 1..x.data.w : ~isnan(x.data.rows[1][c]) /\ x.time_index.rows[1][c] = c - 1}

TakeFn ==
    /\ nops = 0
    /\ \E c \in ContSet(MaxRows), indices \in SeqsUpTo(-2..MaxRows, MaxTake),
          allow_fill \in BOOLEAN, fill_value \in FillSet :
        Call([op |-> "take", c |-> c, indices |-> indices, allow_fill |-> allow_fill,
              fill_value |-> fill_value, res |-> take(c, indices, allow_fill, fill_value)])

NextOps == AddFn \/ TakeFn

SpecOps == Init /\ [][NextOps]_vars

----------------------------------------------------------------------------
(* Containers in memory.  heap holds the numpy buffers; a container holds, for
   its data and for its time index, a reference [buf, sel]: the rows sel of
   buffer buf, so that a numpy view (a slice of an array) is a reference into
   the buffer it was cut from.  origin records the call that made the object. *)

Ident(n) == [k \in 1..n |-> k]

\* the array a reference denotes: the rows sel of its buffer, of the buffer's
\* dimension and width
ViewOf(h, ref) == [RowsOf(h[ref.buf], ref.sel) EXCEPT !.ndim = h[ref.buf].ndim]

ContIn(h, o) == TA(ViewOf(h, o.data), ViewOf(h, o.time_index))

Cont(k) == ContIn(heap, objs[k])

Ran(n) == 1..n

\* the step of a call: what it did to the heap and the objects, and its record
Step(op, err, target, h, os) ==
    /\ heap' = h
    /\ objs' = os
    /\ last' = [op |-> op, err |-> err, target |-> target]
    /\ nops' = nops + 1

\* a call that returns r in freshly allocated arrays
Fresh(op, src, r) ==
    IF r.err # "ok" THEN Step(op, r.err, 0, heap, objs)
    ELSE Step(op, "ok", 0, heap \o <<r.data, r.time_index>>,
              Append(objs, [data |-> [buf |-> Len(heap) + 1, sel |-> Ident(nrows(r.data))],
                            time_index |-> [buf |-> Len(heap) + 2,
                                            sel |-> Ident(nrows(r.time_index))],
                            origin |-> [op |-> op, src |-> src]]))

\* a call that returns an object on the arrays d and t that exist already
Shared(op, src, d, t) ==
    Step(op, "ok", 0, heap,
         Append(objs, [data |-> d, time_index |-> t, origin |-> [op |-> op, src |-> src]]))

\* the arrays a caller hands to TimeArray(data, time_index)
ConstructData ==
    {NoneObj, OtherObj}
    \cup UNION {{Arr2(w, q) : q \in [1..n -> DataRows(w)]} : n \in 0..MaxRows, w \in 0..MaxW}
    \cup UNION {{Arr1(d) : d \in DataRows(w)} : w \in 1..MaxW}

ConstructIndex ==
    {NoneObj} \cup {arange_rows(n, w) : n \in 0..MaxRows, w \in 0..MaxW}
    \cup {Arr1([j \in 1..w |-> j - 1]) : w \in 1..MaxW}

\* TimeArray(data, time_index): the first call
Construct ==
    /\ nops = 0
    /\ \E data \in ConstructData, time_index \in ConstructIndex :
          \E r \in {TimeArray_init(data, time_index)} : Fresh("construct", 0, r)

\* TimeArray(c, copy=copy): a container from a container
Rewrap ==
    /\ nops \in 1..MaxOps
    /\ \E k \in Ran(Len(objs)), cp \in BOOLEAN :
          IF cp THEN \E r \in {TimeArray_init(Cont(k), NoneObj)} : Fresh("construct", k, r)
          ELSE Shared("construct", k, objs[k].data, objs[k].time_index)

\* the selectors of the model
KeySet ==
    {IntKey(i) : i \in 0..(MaxRows - 1)}
    \cup {SliceKey(a, b) : a \in 0..MaxRows, b \in 1..MaxRows}
    \cup {SeqKey(q) : q \in SeqsUpTo(0..(MaxRows - 1), MaxTake)}

\* c[idx]: a slice is a view of c's arrays, an index sequence a copy
GetItem ==
    /\ nops \in 1..MaxOps
    /\ \E k \in Ran(Len(objs)), idx \in KeySet :
       \E r \in {getitem(Cont(k), idx)} :
          IF r.err # "ok" \/ idx.kind = "int" THEN Step("getitem", r.err, 0, heap, objs)
          ELSE IF idx.kind = "slice"
          THEN LET rows == KeyRows(nrows(Cont(k).data), idx) IN
               Shared("getitem", k,
                      [buf |-> objs[k].data.buf,
                       sel |-> [m \in 1..Len(rows) |-> objs[k].data.sel[rows[m]]]],
                      [buf |-> objs[k].time_index.buf,
                       sel |-> [m \in 1..Len(rows) |-> objs[k].time_index.sel[rows[m]]]])
          ELSE Fresh("getitem", k, Ok(r.val.data, r.val.time_index))

\* what the program can assign or pass as an item: None, a row of a container
\* (a TimeBase, or None for a missing row), a container
ItemsOf(k) == {getitem(Cont(k), IntKey(i)).val : i \in 0..(nrows(Cont(k).data) - 1)}

Items == {NoneObj} \cup UNION {ItemsOf(k) : k \in Ran(Len(objs))}

Values == Items \cup {Cont(k) : k \in Ran(Len(objs))}
              \cup {[kind |-> "list", items |-> <<x>>] : x \in Items}

\* c[key] = value: writes through c's references into the buffers
SetItem ==
    /\ nops \in 1..MaxOps
    /\ \E k \in Ran(Len(objs)), key \in KeySet, value \in Values :
       \E plan \in {setitem(Cont(k), key, value)} :
          IF plan.err # "ok" THEN Step("setitem", plan.err, k, heap, objs)
          ELSE \E dsel \in {[m \in 1..Len(plan.sel) |-> objs[k].data.sel[plan.sel[m]]]},
                  tsel \in {[m \in 1..Len(plan.sel) |-> objs[k].time_index.sel[plan.sel[m]]]} :
               \E dbuf \in {Assign(heap[objs[k].data.buf], dsel, plan.data)},
                  tbuf \in {Assign(heap[objs[k].time_index.buf], tsel, plan.time_index)} :
                  Step("setitem", "ok", k,
                       [heap EXCEPT ![objs[k].data.buf] = dbuf,
                                    ![objs[k].time_index.buf] = tbuf],
                       objs)

Take ==
    /\ nops \in 1..MaxOps
    /\ \E k \in Ran(Len(objs)), indices \in SeqsUpTo(-2..MaxRows, MaxTake),
          allow_fill \in BOOLEAN, fill_value \in Items \cup {OtherObj} :
          \E r \in {take(Cont(k), indices, allow_fill, fill_value)} : Fresh("take", k, r)

Copy ==
    /\ nops \in 1..MaxOps
    /\ \E k \in Ran(Len(objs)) : \E r \in {copy(Cont(k))} : Fresh("copy", k, r)

\* c.astype(dtype, copy): the container itself, a copy, or an array of its rows
AsType ==
    /\ nops \in 1..MaxOps
    /\ \E k \in Ran(Len(objs)), dtype \in {"timeseries", "str", "object", "int"},
          cp \in BOOLEAN :
       \E r \in {astype(Cont(k), dtype)} :
          IF r.err # "ok" \/ dtype # "timeseries" THEN Step("astype", r.err, 0, heap, objs)
          ELSE IF cp THEN \E c \in {copy(Cont(k))} : Fresh("astype", k, c)
          ELSE Shared("astype", k, objs[k].data, objs[k].time_index)

\* a + b: the sum in a new array, over a's time index array itself
Add ==
    /\ nops \in 1..MaxOps
    /\ \E a \in Ran(Len(objs)), b \in Ran(Len(objs)) :
       \E r \in {add(Cont(a), Cont(b))} :
          IF r.err # "ok" THEN Step("add", r.err, 0, heap, objs)
          ELSE Step("add", "ok", 0, Append(heap, r.data),
                    Append(objs, [data |-> [buf |-> Len(heap) + 1,
                                            sel |-> Ident(nrows(r.data))],
                                  time_index |-> objs[a].time_index,
                                  origin |-> [op |-> "add", src |-> a]]))

SliceTime ==
    /\ nops \in 1..MaxOps
    /\ \E k \in Ran(Len(objs)), time_index \in SUBSET (0..MaxVal) :
          \E r \in {slice_time(Cont(k), time_index)} : Fresh("slice_time", k, r)

FromList ==
    /\ nops \in 1..MaxOps
    /\ \E data \in SeqsUpTo(Items, MaxConcat) : \E r \in {from_list(data)} : Fresh("from_list", 0, r)

FromTs ==
    /\ nops \in 1..MaxOps
    /\ \E k \in Ran(Len(objs)) : \E r \in {round_trip(Cont(k))} : Fresh("from_ts", k, r)

Concat ==
    /\ nops \in 1..MaxOps
    /\ \E to_concat \in SeqsUpTo({Cont(k) : k \in Ran(Len(objs))}, MaxConcat) :
          \E r \in {concat_same_type(to_concat)} : Fresh("concat", 0, r)

Unique ==
    /\ nops \in 1..MaxOps
    /\ \E k \in Ran(Len(objs)) : \E r \in {unique(Cont(k))} : Fresh("unique", k, r)

Next ==
    \/ Construct
    \/ Rewrap
    \/ GetItem
    \/ SetItem
    \/ Take
    \/ Copy
    \/ AsType
    \/ Add
    \/ SliceTime
    \/ FromList
    \/ FromTs
    \/ Concat
    \/ Unique

Spec == Init /\ [][Next]_vars

----------------------------------------------------------------------------
(* Claims about the containers in memory *)

\* C1: in every state reached by constructing a container and applying any
\* sequence of getitem, setitem, take, copy, astype, add, slice_time (and
\* from_list, from_ts, concat, unique), the value matrix and the time-index
\* matrix of every container are both 2-dimensional and of one shape
C1_ShapeInvariant ==
    \A k \in 1..Len(objs) :
        LET d == ViewOf(heap, objs[k].data)
            t == ViewOf(heap, objs[k].time_index)
        IN d.ndim = 2 /\ t.ndim = 2 /\ SameShape(d, t)

\* a container cut from another by getitem, with cells, after a setitem that wrote
C1_Witness ==
    /\ last.op = "setitem"
    /\ last.err = "ok"
    /\ \E k \in 1..Len(objs) :
          /\ objs[k].origin.op = "getitem"
          /\ nrows(Cont(k).data) >= 1
          /\ Cont(k).data.w >= 1
          /\ ~AllNaN(Cont(k).data.rows[1])

\* s was returned by c[selector] or c by s[selector], selector a slice or an
\* index sequence
CutFrom(j, k) ==
    /\ j # k
    /\ \/ objs[j].origin = [op |-> "getitem", src |-> k]
       \/ objs[k].origin = [op |-> "getitem", src |-> j]

\* C6: s = c[selector] (a slice or an index sequence) owns fresh matrices: a later
\* setitem on s leaves every cell of c's values and times unchanged, and a later
\* setitem on c leaves every cell of s unchanged
C6_NoSharedStorage ==
    [][(last'.op = "setitem" /\ last'.err = "ok") =>
          \A j \in 1..Len(objs) :
              CutFrom(j, last'.target) => ContIn(heap', objs'[j]) = ContIn(heap, objs[j])]_vars

----------------------------------------------------------------------------
(* Claims about from_list, concat and equals *)

\* no cell of arr is the sentinel
NoNaN(arr) == \A r \in 1..nrows(arr) : \A c \in 1..arr.w : ~isnan(arr.rows[r][c])

Accepted(data) == \A k \in 1..Len(data) : data[k].kind # "other"

NoneAt(data) == {k \in 1..Len(data) : data[k].kind = "None"}

PresentAt(data) == {k \in 1..Len(data) : data[k].kind \notin {"None", "other"}}

OneWidth(data) == \A k, m \in PresentAt(data) : data[k].data.w = data[m].data.w

\* C7: two containers a and b built by from_list from one list (missing entries
\* allowed) satisfy equals(a, a), equals(a, b), and equals(a, b) = equals(b, a)
\* (stated for lists whose items that are not missing hold no sentinel cell)
C7_EqualsReflexiveSymmetric ==
    (last.op = "equals"
       /\ \A k \in PresentAt(last.data) :
             NoNaN(last.data[k].data) /\ NoNaN(last.data[k].time_index)) =>
        last.aa /\ last.ab /\ (last.ab = last.ba)

\* C8: from_list of n items: all None gives n rows and 0 columns; some but not
\* all None, the others of one width w, gives n rows and w columns, the rows at
\* the None items all sentinel in values and times, every other row its item's
\* values and times, and isMissing() true exactly at the None items
C8_FromListMissingRows ==
    (last.op = "from_list" /\ Accepted(last.data)) =>
      LET data == last.data
          n == Len(data)
          res == last.res
      IN /\ PresentAt(data) = {} =>
              res.err = "ok" /\ nrows(res.data) = n /\ res.data.w = 0
         /\ (PresentAt(data) # {} /\ NoneAt(data) # {} /\ OneWidth(data)) =>
              /\ res.err = "ok"
              /\ nrows(res.data) = n
              /\ \A k \in PresentAt(data) : res.data.w = data[k].data.w
              /\ \A k \in NoneAt(data) :
                    AllNaN(res.data.rows[k]) /\ AllNaN(res.time_index.rows[k])
              /\ \A k \in PresentAt(data) :
                    /\ res.data.rows[k] = data[k].data.rows[1]
                    /\ res.time_index.rows[k] = data[k].time_index.rows[1]
              /\ \A k \in 1..n : isna(TA(res.data, res.time_index))[k] <=> k \in NoneAt(data)

\* the rows of input x that are not missing
PresentRows(x) == {r \in 1..nrows(x.data) : ~isna(x)[r]}

\* C9: from_list fails with WidthMismatch when two non-missing items differ in
\* width, concat fails with WidthMismatch when its inputs have more than one
\* distinct positive width, and when either succeeds every non-missing input row
\* has the width of the result
C9_WidthPerBatch ==
    /\ (last.op = "from_list" /\ Accepted(last.data)) =>
          /\ ~OneWidth(last.data) => last.res.err = "WidthMismatch"
          /\ last.res.err = "ok" =>
                \A k \in PresentAt(last.data) : last.data[k].data.w = last.res.data.w
    /\ last.op = "concat" =>
          /\ Cardinality(PositiveWidths(last.to_concat)) > 1 => last.res.err = "WidthMismatch"
          /\ last.res.err = "ok" =>
                \A k \in 1..Len(last.to_concat) :
                    PresentRows(last.to_concat[k]) # {} =>
                        last.to_concat[k].data.w = last.res.data.w

RECURSIVE RowsBefore(_, _)
\* the number of rows of the first k - 1 inputs
RowsBefore(to_concat, k) ==
    IF k <= 1 THEN 0
    ELSE RowsBefore(to_concat, k - 1) + nrows(to_concat[k - 1].data)

\* what concat is to return for inputs of at most one distinct positive width
ConcatPads(to_concat, res) ==
    LET w == IF PositiveWidths(to_concat) = {} THEN 0
             ELSE CHOOSE x \in PositiveWidths(to_concat) : TRUE
    IN /\ res.err = "ok"
       /\ nrows(res.data) = RowsBefore(to_concat, Len(to_concat) + 1)
       /\ nrows(res.time_index) = nrows(res.data)
       /\ res.data.w = w
       /\ res.time_index.w = w
       /\ \A k \in 1..Len(to_concat) : \A r \in 1..nrows(to_concat[k].data) :
             LET at == RowsBefore(to_concat, k) + r IN
             IF to_concat[k].data.w = 0
             THEN AllNaN(res.data.rows[at]) /\ AllNaN(res.time_index.rows[at])
             ELSE /\ res.data.rows[at] = to_concat[k].data.rows[r]
                  /\ res.time_index.rows[at] = to_concat[k].time_index.rows[r]

\* C10 as stated: for every list of containers with at most one distinct positive
\* width w (0 if none), concat returns the stacked rows, width w, the rows of the
\* 0-column inputs all sentinel and the others unchanged, in input order
C10_ConcatPadsAnyList ==
    (last.op = "concat" /\ Cardinality(PositiveWidths(last.to_concat)) <= 1) =>
        ConcatPads(last.to_concat, last.res)

\* C10 amended: the same for every list of at least one container
C10_ConcatPads ==
    (last.op = "concat" /\ Cardinality(PositiveWidths(last.to_concat)) <= 1
       /\ Len(last.to_concat) >= 1) =>
        ConcatPads(last.to_concat, last.res)

\* a 0-column input with rows was padded to the width of an input with rows
C10_Witness ==
    /\ last.op = "concat"
    /\ last.res.err = "ok"
    /\ \E k, m \in 1..Len(last.to_concat) :
          /\ k < m
          /\ last.to_concat[k].data.w = 0 /\ nrows(last.to_concat[k].data) >= 1
          /\ last.to_concat[m].data.w >= 1 /\ nrows(last.to_concat[m].data) >= 1
          /\ NoNaN(last.to_concat[m].data)
          /\ nrows(last.res.data) >= 2

----------------------------------------------------------------------------
(* Claims about the text codec and unique *)

\* C2: for a container c of positive width without missing rows (here: at least
\* one row, no sentinel cell), from_ts(to_ts(c, include_header=False)) has c's
\* value matrix and c's time-index matrix, cell for cell
C2_TextRoundTrip ==
    (last.op = "round_trip" /\ last.c.data.w > 0 /\ nrows(last.c.data) > 0
       /\ NoNaN(last.c.data) /\ NoNaN(last.c.time_index)) =>
        /\ last.res.err = "ok"
        /\ last.res.data = last.c.data
        /\ last.res.time_index = last.c.time_index

\* the rows of c that no earlier row equals in text, ascending
FirstOccurrences(c) ==
    LET keys == [i \in 1..nrows(c.data) |->
                    TimeBase_str(TimeBase(Arr1(c.data.rows[i]), Arr1(c.time_index.rows[i])))]
    IN Where(nrows(c.data), [i \in 1..nrows(c.data) |-> \A m \in 1..(i - 1) : keys[m] # keys[i]])

\* C3: unique() holds exactly one row for each distinct row of c (distinct by
\* text), that row being the first occurrence, in first-occurrence order
C3_UniqueFirstOccurrences ==
    last.op = "unique" =>
        /\ last.res.err = "ok"
        /\ last.res.data = RowsOf(last.c.data, FirstOccurrences(last.c))
        /\ last.res.time_index = RowsOf(last.c.time_index, FirstOccurrences(last.c))

----------------------------------------------------------------------------
(* Claims about add and take *)

\* C4: add(a, b) fails with IncompatibleIndex unless every time cell of a equals
\* the corresponding time cell of b (in particular when they differ in one cell
\* and agree in another); when all match, the values are the elementwise sums
\* and the time index is a's.  Stated for a and b of one shape with at least one
\* cell and no sentinel in the time indices
C4_AddNeedsIdenticalIndex ==
    (last.op = "add" /\ SameShape(last.a.data, last.b.data)
       /\ nrows(last.a.data) > 0 /\ last.a.data.w > 0
       /\ NoNaN(last.a.time_index) /\ NoNaN(last.b.time_index)) =>
        IF last.a.time_index = last.b.time_index
        THEN /\ last.res.err = "ok"
             /\ last.res.data = np_add(last.a.data, last.b.data)
             /\ last.res.time_index = last.a.time_index
        ELSE last.res.err = "IncompatibleIndex"

\* C5: take(indices, allowFill=true, fillValue=v) fails with InvalidFillValue for
\* every v that is neither a TimeBase nor null
C5_TakeRejectsBadFill ==
    (last.op = "take" /\ last.allow_fill /\ last.fill_value.kind = "other") =>
        last.res.err = "InvalidFillValue"

\* C11: take(indices, allowFill=true, fillValue=null) succeeds and returns one row
\* per index; every position whose index is out of range for c is a missing row
\* of the result, and every position whose index addresses a row of c that is
\* not missing is not missing in the result.  Stated for indices from -1 (the
\* marker of a row to fill) upwards
C11_TakeFillsOutOfRange ==
    (last.op = "take" /\ last.allow_fill /\ last.fill_value.kind = "None"
       /\ \A k \in 1..Len(last.indices) : last.indices[k] >= -1) =>
        LET n == nrows(last.c.data)
            res == TA(last.res.data, last.res.time_index)
        IN /\ last.res.err = "ok"
           /\ nrows(res.data) = Len(last.indices)
           /\ \A k \in 1..Len(last.indices) :
                 IF last.indices[k] < 0 \/ last.indices[k] >= n
                 THEN isna(res)[k]
                 ELSE ~isna(last.c)[last.indices[k] + 1] => ~isna(res)[k]

====
